---- MODULE Spec2Model ----
(***************************************************************************)
(* Model of src/app.py: a Streamlit page that keeps a list of monitored    *)
(* sites in SQLite (tables sites and checks), checks every enabled site    *)
(* on request (run_all_checks -> check_site), and sends a Telegram         *)
(* message for every site whose text changed.                              *)
(*                                                                         *)
(* Streamlit runs every browser session / HTTP request in a thread of its  *)
(* own, so several run_all_checks invocations and dashboard operations     *)
(* interleave over the one database file.  Each session opens a fresh      *)
(* connection per operation; Python's sqlite3 opens a transaction before   *)
(* the first UPDATE/INSERT/DELETE and the writes become visible to other   *)
(* connections at conn.commit().  A second writer waits for the write      *)
(* lock (the busy timeout is taken not to expire).                         *)
(*                                                                         *)
(* Columns left out: sites.description, sites.created_at and               *)
(* checks.checked_at.  checks is kept in insertion order, which is the     *)
(* order of checked_at.  An optional value (a nullable column, a Python    *)
(* None) is the empty tuple None or the one-element tuple Some(v).         *)
(*                                                                         *)
(* Specifications: Spec (any number of script runs at once), SpecSeq (one  *)
(* run_all_checks at a time), SpecLive (Spec's batches under fairness, on  *)
(* a stored database), SpecRace (the batches after one change of one       *)
(* page), SpecGate (main's routing of one request) and SpecNorm            *)
(* (normalize_html on its own).                                            *)
(***************************************************************************)
EXTENDS Integers, Sequences, FiniteSets, TLC

\* ------------------------------------------------------------ bounds
MaxSites == 2       \* rows ever inserted into sites
MaxBatches == 2     \* run_all_checks invocations ever started
MaxUrlLen == 1      \* length of a URL typed into the form
MaxPageLen == 1     \* tokens of a fetched page
MaxParamLen == 2    \* values of one query parameter in a request
MaxDocLen == 3      \* tokens of a document handed to normalize_html alone

Sessions == {1, 2}  \* script threads that may run at the same time

None == <<>>
Some(v) == <<v>>

\* ------------------------------------------------------------ inputs
UrlChars == {" ", "a"}
PageTokens == {"x", " ", "<t>"}     \* a letter, white space, a tag
SeqsUpTo(S, n) == UNION {[1..k -> S] : k \in 0..n}
UrlInputs == SeqsUpTo(UrlChars, MaxUrlLen)
Pages == SeqsUpTo(PageTokens, MaxPageLen)
\* Markup in general also holds character references: "&lt;t&gt;" is the
\* text "<t>", escaped.  A string is the concatenation of its tokens, so the
\* token "<t>" in a string is a tag to the parser, wherever it came from.
HtmlTokens == PageTokens \cup {"&lt;t&gt;"}
Docs == SeqsUpTo(HtmlTokens, MaxDocLen)
ErrorTexts == {"", "timeout"}       \* str(e) of a failed fetch; may be empty
Transports == {"ok", "fail"}        \* outcome of requests.post to Telegram

\* ------------------------------------------------------------ pure functions
RECURSIVE LStrip(_)
LStrip(s) == IF s # <<>> /\ Head(s) = " " THEN LStrip(Tail(s)) ELSE s

RECURSIVE RStrip(_)
RStrip(s) ==
    IF s # <<>> /\ s[Len(s)] = " " THEN RStrip(SubSeq(s, 1, Len(s) - 1)) ELSE s

\* str.strip()
Strip(s) == LStrip(RStrip(s))

\* html.parser hands character data on with its references converted.
Unescape(tok) == IF tok = "&lt;t&gt;" THEN "<t>" ELSE tok

\* The text nodes of the parsed page: the maximal runs of tokens between tags.
RECURSIVE TextNodes(_, _)
TextNodes(page, node) ==
    IF page = <<>> THEN <<node>>
    ELSE IF Head(page) = "<t>" THEN <<node>> \o TextNodes(Tail(page), <<>>)
    ELSE TextNodes(Tail(page), Append(node, Unescape(Head(page))))

\* soup.get_text(separator=" ", strip=True): every text node stripped, the
\* empty ones dropped, the rest joined by one space.
RECURSIVE JoinNodes(_)
JoinNodes(nodes) ==
    IF nodes = <<>> THEN <<>>
    ELSE LET h == Strip(Head(nodes))
             r == JoinNodes(Tail(nodes))
         IN  IF h = <<>> THEN r
             ELSE IF r = <<>> THEN h
             ELSE h \o <<" ">> \o r

GetText(page) == JoinNodes(TextNodes(page, <<>>))

\* " ".join(text.split()): white-space runs become one space, ends trimmed.
RECURSIVE Collapse(_)
Collapse(s) ==
    IF s = <<>> THEN <<>>
    ELSE IF Head(s) = " " THEN
        LET r == Collapse(LStrip(s)) IN IF r = <<>> THEN <<>> ELSE <<" ">> \o r
    ELSE <<Head(s)>> \o Collapse(Tail(s))

SplitJoin(s) == Collapse(Strip(s))

normalize_html(html) == SplitJoin(GetText(html))

\* hashlib.sha256(...).hexdigest(), taken as collision free: an injective
\* numbering of the texts.
CharCode(c) == IF c = "x" THEN 1 ELSE IF c = " " THEN 2 ELSE 3
RECURSIVE compute_hash(_)
compute_hash(text) ==
    IF text = <<>> THEN 0
    ELSE 4 * compute_hash(SubSeq(text, 1, Len(text) - 1)) + CharCode(text[Len(text)])

\* ------------------------------------------------------------ state
VARIABLES
    secrets,    \* per session: TELEGRAM_BOT_TOKEN and TELEGRAM_CHAT_ID of its run
    sites,      \* table sites, committed: id -> [url, last_hash, enabled]
    nextId,     \* next AUTOINCREMENT id of sites
    checks,     \* table checks, committed, in insertion order
    lock,       \* session holding SQLite's write lock, 0 when free
    pc,         \* per session: where its run_all_checks call stands
    snap,       \* per session: the local list `sites` of run_all_checks
    idx,        \* per session: position of the for loop in snap
    cur,        \* per session: the locals of the check_site call in progress
    tx,         \* per session: statements executed and not yet committed
    results,    \* per session: the local list `results`
    notif,      \* per session: send_telegram_message calls of this batch
    batches,    \* run_all_checks invocations started so far
    appended,   \* per session: the rows its check_site calls committed in this
                \* batch (history of lines 162 and 178; the program keeps none)
    request,    \* main: CRON_KEY and the query parameters of the request served
    page,       \* main: what the request was answered with
    doc,        \* normalize_html: its argument html
    canon       \* normalize_html: its return value, None before the call

vars == <<secrets, sites, nextId, checks, lock, pc, snap, idx, cur, tx, results,
          notif, batches, appended, request, page, doc, canon>>

store == <<sites, nextId, checks>>
locals == <<secrets, snap, idx, cur, results, notif, appended>>
gate == <<request, page>>
norm == <<doc, canon>>

\* The secrets of a script run that has not read them yet.
Unread == [token |-> "unread", chat |-> "unread"]
SecretValues == [token : {"", "token"}, chat : {"", "chat"}]

NoCur == [site_id |-> 0, url |-> <<>>, last_hash |-> None, changed |-> FALSE,
          error |-> None, new_hash |-> None]

\* The row session p's check_site appends to checks.
RowOf(p) == [site_id |-> cur[p].site_id, changed |-> cur[p].changed,
             error |-> cur[p].error]

\* ------------------------------------------------------------ SQL statements
\* A statement a connection executes inside its transaction.
UpdateHashStmt(id, h) ==
    [op |-> "update_hash", site_id |-> id, last_hash |-> h, changed |-> FALSE,
     error |-> None]
InsertCheckStmt(id, changed, error) ==
    [op |-> "insert_check", site_id |-> id, last_hash |-> None,
     changed |-> changed, error |-> error]
DeleteChecksStmt(id) ==
    [op |-> "delete_checks", site_id |-> id, last_hash |-> None,
     changed |-> FALSE, error |-> None]
DeleteSiteStmt(id) ==
    [op |-> "delete_site", site_id |-> id, last_hash |-> None, changed |-> FALSE,
     error |-> None]

\* SelectSeq without a higher-order argument: the rows of cs not of site id.
RECURSIVE RowsNotOf(_, _)
RowsNotOf(cs, id) ==
    IF cs = <<>> THEN <<>>
    ELSE IF Head(cs).site_id = id THEN RowsNotOf(Tail(cs), id)
    ELSE <<Head(cs)>> \o RowsNotOf(Tail(cs), id)

\* Faulty variant of ApplyStmt: the UPDATE without its WHERE clause.
ApplyStmtUpdateAll(db, s) ==
    CASE s.op = "update_hash" ->
            [db EXCEPT !.sites = [i \in DOMAIN @ |-> [@[i] EXCEPT !.last_hash = s.last_hash]]]
      [] s.op = "insert_check" ->
            [db EXCEPT !.checks = Append(@, [site_id |-> s.site_id,
                                             changed |-> s.changed,
                                             error |-> s.error])]
      [] s.op = "delete_checks" ->
            [db EXCEPT !.checks = RowsNotOf(@, s.site_id)]
      [] s.op = "delete_site" ->
            [db EXCEPT !.sites = [i \in DOMAIN @ \ {s.site_id} |-> @[i]]]

\* The effect of one statement on the tables db = [sites, checks].  The
\* schema declares FOREIGN KEY(site_id) but the connection never turns
\* PRAGMA foreign_keys on, so an INSERT into checks takes any site_id.
ApplyStmt(db, s) ==
    CASE s.op = "update_hash" ->
            IF s.site_id \in DOMAIN db.sites
            THEN [db EXCEPT !.sites[s.site_id].last_hash = s.last_hash]
            ELSE db
      [] s.op = "insert_check" ->
            [db EXCEPT !.checks = Append(@, [site_id |-> s.site_id,
                                             changed |-> s.changed,
                                             error |-> s.error])]
      [] s.op = "delete_checks" ->
            [db EXCEPT !.checks = RowsNotOf(@, s.site_id)]
      [] s.op = "delete_site" ->
            [db EXCEPT !.sites = [i \in DOMAIN @ \ {s.site_id} |-> @[i]]]

\* conn.commit(): the statements of the transaction take effect together.
RECURSIVE ApplyAll(_, _)
ApplyAll(db, stmts) ==
    IF stmts = <<>> THEN db ELSE ApplyAll(ApplyStmt(db, Head(stmts)), Tail(stmts))

Db == [sites |-> sites, checks |-> checks]

\* ------------------------------------------------------------ queries
\* The rows of `SELECT ... FROM sites [WHERE enabled = 1]`, in rowid order.
RECURSIVE RowsFrom(_, _, _)
RowsFrom(tbl, i, onlyEnabled) ==
    IF i >= nextId THEN <<>>
    ELSE IF i \in DOMAIN tbl /\ (tbl[i].enabled \/ ~onlyEnabled)
         THEN <<[id |-> i, url |-> tbl[i].url, last_hash |-> tbl[i].last_hash,
                 enabled |-> tbl[i].enabled]>> \o RowsFrom(tbl, i + 1, onlyEnabled)
         ELSE RowsFrom(tbl, i + 1, onlyEnabled)

\* Faulty variant of SelectEnabled: the WHERE clause forgotten.
SelectAll(tbl) == RowsFrom(tbl, 1, FALSE)

SelectEnabled(tbl) == RowsFrom(tbl, 1, TRUE)

\* get_last_error_for_site: the latest row of the site with error IS NOT NULL.
RECURSIVE LastError(_, _)
LastError(cs, id) ==
    IF cs = <<>> THEN None
    ELSE LET r == cs[Len(cs)]
         IN  IF r.site_id = id /\ r.error # None THEN r.error
             ELSE LastError(SubSeq(cs, 1, Len(cs) - 1), id)

get_last_error_for_site(id) == LastError(checks, id)

\* ------------------------------------------------------------ check_site
\* Faulty variants of Compare: the comparison inverted; the baseline rule dropped.
CompareInverted(last_hash, new_hash) ==
    IF last_hash = None THEN FALSE ELSE new_hash = last_hash
CompareNoBaseline(last_hash, new_hash) == new_hash # last_hash

Compare(last_hash, new_hash) ==
    IF last_hash = None THEN FALSE ELSE new_hash # last_hash

\* The try block up to the database writes: fetch, normalize, hash, compare.
OnFetched(row, html) ==
    LET new_hash == Some(compute_hash(normalize_html(html)))
    IN  [site_id |-> row.id, url |-> row.url, last_hash |-> row.last_hash,
         changed |-> Compare(row.last_hash, new_hash), error |-> None,
         new_hash |-> new_hash]

\* The except block: err_text = str(e), changed recorded as 0.
OnFetchError(row, err_text) ==
    [site_id |-> row.id, url |-> row.url, last_hash |-> row.last_hash,
     changed |-> FALSE, error |-> Some(err_text), new_hash |-> None]

\* ------------------------------------------------------------ notifier
\* Faulty variant of send_telegram_message: the try/except around the post left out.
SendTelegramNoCatch(token, chat, transport) ==
    IF token = "" \/ chat = "" THEN "skipped"
    ELSE IF transport = "ok" THEN "delivered"
    ELSE "raised"

\* What a call of send_telegram_message does: "skipped" (not configured),
\* "delivered", "logged" (the post failed, the exception was printed).
\* "raised" would be an exception reaching the caller.
send_telegram_message(token, chat, transport) ==
    IF token = "" \/ chat = "" THEN "skipped"
    ELSE IF transport = "ok" THEN "delivered"
    ELSE "logged"

\* ------------------------------------------------------------ routing
\* What params.get(name) returns: None, a str (st.query_params) or a list of
\* str (st.experimental_get_query_params).  `value` holds the strings; a str
\* is held as the one string it is.
NoParam == [type |-> "NoneType", value |-> <<>>]
StrParam(v) == [type |-> "str", value |-> <<v>>]
ListParam(vs) == [type |-> "list", value |-> vs]
ParamsOver(S) ==
    {NoParam} \cup {StrParam(v) : v \in S}
              \cup {ListParam(vs) : vs \in SeqsUpTo(S, MaxParamLen)}

CronStrings == {"1", "true", "True", "0", ""}   \* values of ?cron=
KeyStrings == {"", "s", "t"}                    \* values of ?key=
CronKeys == {"", "s"}                           \* CRON_KEY; "" when not set

Requests == [CRON_KEY : CronKeys, cron : ParamsOver(CronStrings),
             key : ParamsOver(KeyStrings)]
NoRequest == [CRON_KEY |-> "", cron |-> NoParam, key |-> NoParam]

\* _get_val, lines 223-227: the values of a parameter as a list.
get_val(val) ==
    IF val.type = "list" THEN val.value
    ELSE IF val.type = "NoneType" THEN <<>>
    ELSE val.value

\* Faulty variant of is_cron_request: a request without a key passes.
IsCronRequestKeyOptional(r) ==
    LET cron_vals == get_val(r.cron)
        key_vals == get_val(r.key)
        is_cron == \E i \in DOMAIN cron_vals : cron_vals[i] \in {"1", "true", "True"}
        key_ok == \/ r.CRON_KEY = ""
                  \/ key_vals = <<>>
                  \/ \E i \in DOMAIN key_vals : key_vals[i] = r.CRON_KEY
    IN  is_cron /\ key_ok

\* is_cron_request, lines 219-235, for the request r.
is_cron_request(r) ==
    LET cron_vals == get_val(r.cron)
        key_vals == get_val(r.key)
        is_cron == \E i \in DOMAIN cron_vals : cron_vals[i] \in {"1", "true", "True"}
        key_ok == \/ r.CRON_KEY = ""
                  \/ \E i \in DOMAIN key_vals : key_vals[i] = r.CRON_KEY
    IN  is_cron /\ key_ok

\* ------------------------------------------------------------ initial state
\* After init_db() on a fresh monitor.db: both tables exist and are empty,
\* and no script is running.
\* No script is running.
Idle ==
    /\ secrets = [p \in Sessions |-> Unread]
    /\ lock = 0
    /\ pc = [p \in Sessions |-> "idle"]
    /\ snap = [p \in Sessions |-> <<>>]
    /\ idx = [p \in Sessions |-> 1]
    /\ cur = [p \in Sessions |-> NoCur]
    /\ tx = [p \in Sessions |-> <<>>]
    /\ results = [p \in Sessions |-> <<>>]
    /\ notif = [p \in Sessions |-> <<>>]
    /\ appended = [p \in Sessions |-> <<>>]
    /\ batches = 0

\* Both tables exist and are empty.
EmptyDb ==
    /\ sites = <<>>
    /\ nextId = 1
    /\ checks = <<>>

Init ==
    /\ Idle
    /\ EmptyDb
    /\ request = NoRequest
    /\ page = "none"
    /\ doc = <<>>
    /\ canon = None

\* ------------------------------------------------------------ run_all_checks
\* Lines 186-194: read the enabled sites, start with no results.
StartBatch(p) ==
    /\ pc[p] = "idle"
    /\ \A q \in Sessions : q < p => pc[q] # "idle"   \* the first free thread
    /\ batches < MaxBatches
    /\ batches' = batches + 1
    /\ snap' = [snap EXCEPT ![p] = SelectEnabled(sites)]
    /\ pc' = [pc EXCEPT ![p] = IF SelectEnabled(sites) = <<>> THEN "done" ELSE "fetch"]
    /\ UNCHANGED <<secrets, idx, cur, results, notif, appended, store, lock, tx, gate,
                   norm>>

\* check_site lines 139-150: the fetch succeeds with some page.
FetchOk(p) ==
    /\ pc[p] = "fetch"
    /\ \E html \in Pages :
          cur' = [cur EXCEPT ![p] = OnFetched(snap[p][idx[p]], html)]
    /\ pc' = [pc EXCEPT ![p] = "update"]
    /\ UNCHANGED <<secrets, store, lock, snap, idx, tx, results, notif, appended,
                   batches, gate, norm>>

\* Faulty variant of FetchFail: no try/except around fetch_page, so that its
\* exception ends run_all_checks.
FetchFailUncaught(p) ==
    /\ pc[p] = "fetch"
    /\ pc' = [pc EXCEPT ![p] = "aborted"]
    /\ UNCHANGED <<secrets, store, lock, snap, idx, cur, tx, results, notif, appended,
                   batches, gate, norm>>

\* check_site lines 141-142, 166-168: fetch_page raises; str(e) is err_text.
FetchFail(p) ==
    /\ pc[p] = "fetch"
    /\ \E err_text \in ErrorTexts :
          cur' = [cur EXCEPT ![p] = OnFetchError(snap[p][idx[p]], err_text)]
    /\ pc' = [pc EXCEPT ![p] = "record_failure"]
    /\ UNCHANGED <<secrets, store, lock, snap, idx, tx, results, notif, appended,
                   batches, gate, norm>>

\* Faulty variant of ExecUpdate: the connection in autocommit mode, so that
\* the UPDATE is committed on its own, before the INSERT is executed.
ExecUpdateAutocommit(p) ==
    /\ pc[p] = "update"
    /\ lock = 0
    /\ lock' = p
    /\ sites' = ApplyStmt(Db, UpdateHashStmt(cur[p].site_id, cur[p].new_hash)).sites
    /\ pc' = [pc EXCEPT ![p] = "insert"]
    /\ UNCHANGED <<nextId, checks, tx, locals, batches, gate, norm>>

\* check_site line 154: UPDATE sites SET last_hash; opens the transaction.
ExecUpdate(p) ==
    /\ pc[p] = "update"
    /\ lock = 0
    /\ lock' = p
    /\ tx' = [tx EXCEPT ![p] = <<UpdateHashStmt(cur[p].site_id, cur[p].new_hash)>>]
    /\ pc' = [pc EXCEPT ![p] = "insert"]
    /\ UNCHANGED <<store, locals, batches, gate, norm>>

\* Faulty variant of ExecInsert: the message is sent from inside check_site,
\* once the INSERT is executed and before conn.commit().
ExecInsertAndNotify(p) ==
    /\ pc[p] = "insert"
    /\ lock = p
    /\ tx' = [tx EXCEPT ![p] =
                Append(@, InsertCheckStmt(cur[p].site_id, cur[p].changed, None))]
    /\ notif' = [notif EXCEPT ![p] =
                IF cur[p].changed
                THEN Append(@, [site_id |-> cur[p].site_id, outcome |-> "delivered"])
                ELSE @]
    /\ pc' = [pc EXCEPT ![p] = "commit"]
    /\ UNCHANGED <<store, lock, secrets, snap, idx, cur, results, appended, batches,
                   gate, norm>>

\* check_site lines 155-161: INSERT INTO checks, in the same transaction.
ExecInsert(p) ==
    /\ pc[p] = "insert"
    /\ lock = p
    /\ tx' = [tx EXCEPT ![p] =
                Append(@, InsertCheckStmt(cur[p].site_id, cur[p].changed, None))]
    /\ pc' = [pc EXCEPT ![p] = "commit"]
    /\ UNCHANGED <<store, lock, locals, batches, gate, norm>>

\* Faulty variants of FailureStmts: the failure also clears the stored hash; the
\* failure is recorded as a change.
FailureStmtsClearHash(c) ==
    <<UpdateHashStmt(c.site_id, None), InsertCheckStmt(c.site_id, FALSE, c.error)>>
FailureStmtsChanged(c) == <<InsertCheckStmt(c.site_id, TRUE, c.error)>>
\* Another: the failure is only printed, not recorded.
FailureStmtsNoRow(c) == <<>>

\* The statements of the except block, lines 169-177.
FailureStmts(c) == <<InsertCheckStmt(c.site_id, FALSE, c.error)>>

\* check_site lines 169-177: the except block's INSERT INTO checks.
RecordFailure(p) ==
    /\ pc[p] = "record_failure"
    /\ lock = 0
    /\ lock' = p
    /\ tx' = [tx EXCEPT ![p] = FailureStmts(cur[p])]
    /\ pc' = [pc EXCEPT ![p] = "commit"]
    /\ UNCHANGED <<store, locals, batches, gate, norm>>

\* check_site lines 162 and 178: conn.commit(), then the function returns.
Commit(p) ==
    /\ pc[p] = "commit"
    /\ lock = p
    /\ sites' = ApplyAll(Db, tx[p]).sites
    /\ checks' = ApplyAll(Db, tx[p]).checks
    /\ tx' = [tx EXCEPT ![p] = <<>>]
    /\ lock' = 0
    /\ pc' = [pc EXCEPT ![p] = "notify"]
    /\ appended' = [appended EXCEPT ![p] = Append(@, RowOf(p))]
    /\ UNCHANGED <<nextId, secrets, snap, idx, cur, results, notif, batches, gate,
                   norm>>

\* Lines 15-16 run at the start of every script run; the values are first read
\* at line 96, and the model draws them there.
ReadSecrets(p) == IF secrets[p] = Unread THEN SecretValues ELSE {secrets[p]}

\* run_all_checks lines 203-205 and the loop: append the result, go on.
AppendResult(p) ==
    /\ results' = [results EXCEPT ![p] =
            Append(@, [site_id |-> cur[p].site_id, url |-> cur[p].url,
                       changed |-> cur[p].changed, error |-> cur[p].error])]
    /\ idx' = [idx EXCEPT ![p] = @ + 1]
    /\ pc' = [pc EXCEPT ![p] = IF idx[p] < Len(snap[p]) THEN "fetch" ELSE "done"]
    /\ cur' = [cur EXCEPT ![p] = NoCur]

\* run_all_checks lines 196-203 for a site that changed: the notifier is
\* called; an exception out of it would end run_all_checks.
NotifyChanged(p) ==
    /\ pc[p] = "notify"
    /\ cur[p].changed
    /\ \E transport \in Transports, sec \in ReadSecrets(p) :
        LET outcome == send_telegram_message(sec.token, sec.chat, transport)
        IN  /\ secrets' = [secrets EXCEPT ![p] = sec]
            /\ IF outcome = "raised"
               THEN /\ pc' = [pc EXCEPT ![p] = "aborted"]
                    /\ UNCHANGED <<results, idx, notif, cur>>
               ELSE /\ notif' = [notif EXCEPT ![p] =
                          Append(@, [site_id |-> cur[p].site_id, outcome |-> outcome])]
                    /\ AppendResult(p)
    /\ UNCHANGED <<store, lock, snap, tx, batches, appended, gate, norm>>

\* run_all_checks lines 196-203 for a site that did not change or failed.
SkipNotify(p) ==
    /\ pc[p] = "notify"
    /\ ~cur[p].changed
    /\ AppendResult(p)
    /\ UNCHANGED <<secrets, notif, store, lock, snap, tx, batches, appended, gate,
                   norm>>

\* run_all_checks line 205: the results go back to the caller, which renders
\* its summary; the script run ends and its locals are gone.
Finish(p) ==
    /\ pc[p] = "done"
    /\ pc' = [pc EXCEPT ![p] = "idle"]
    /\ secrets' = [secrets EXCEPT ![p] = Unread]
    /\ snap' = [snap EXCEPT ![p] = <<>>]
    /\ idx' = [idx EXCEPT ![p] = 1]
    /\ results' = [results EXCEPT ![p] = <<>>]
    /\ notif' = [notif EXCEPT ![p] = <<>>]
    /\ appended' = [appended EXCEPT ![p] = <<>>]
    /\ UNCHANGED <<store, lock, cur, tx, batches, gate, norm>>

\* ------------------------------------------------------------ cron page
\* bool(v) of an Optional[str]: None and the empty string are false.
IsTrue(v) == v # None /\ v # Some("")

\* sum(1 for _, _, changed, _ in results if changed)
RECURSIVE changed_count(_)
changed_count(rs) ==
    IF rs = <<>> THEN 0
    ELSE (IF Head(rs).changed THEN 1 ELSE 0) + changed_count(Tail(rs))

\* sum(1 for _, _, _, err in results if err)
RECURSIVE error_count(_)
error_count(rs) ==
    IF rs = <<>> THEN 0
    ELSE (IF IsTrue(Head(rs).error) THEN 1 ELSE 0) + error_count(Tail(rs))

\* render_cron_page lines 240-244: the two numbers of
\* "Done. Changed: <N>, Errors: <M>" for the returned results.
render_cron_page(rs) == [Changed |-> changed_count(rs), Errors |-> error_count(rs)]

\* ------------------------------------------------------------ dashboard
\* Faulty variant of UrlTaken: uniqueness enforced among the enabled sites only.
UrlTakenEnabledOnly(tbl, url) ==
    \E i \in DOMAIN tbl : tbl[i].enabled /\ tbl[i].url = url

UrlTaken(tbl, url) == \E i \in DOMAIN tbl : tbl[i].url = url

\* render_dashboard lines 279-300: what submitting the add-site form with the
\* text `url` does to table sites (tbl, next id `next`) and what it shows.
\* INSERT fails with IntegrityError on the UNIQUE column url; enabled
\* defaults to 1 and last_hash to NULL.
SubmitAddForm(tbl, next, url) ==
    IF url = <<>>
    THEN [msg |-> "URL is required.", sites |-> tbl, nextId |-> next]
    ELSE IF UrlTaken(tbl, Strip(url))
    THEN [msg |-> "This URL is already being monitored.", sites |-> tbl,
          nextId |-> next]
    ELSE [msg |-> "Website added.",
          sites |-> (next :> [url |-> Strip(url), last_hash |-> None,
                              enabled |-> TRUE]) @@ tbl,
          nextId |-> next + 1]

AddSite ==
    \E url \in UrlInputs :
        LET r == SubmitAddForm(sites, nextId, url)
        IN  /\ r.nextId <= MaxSites + 1
            /\ url # <<>> => lock = 0
            /\ sites' = r.sites
            /\ nextId' = r.nextId
            /\ UNCHANGED <<checks, lock, pc, locals, tx, batches, gate, norm>>

\* render_dashboard lines 347-355: the Enabled checkbox differs from the row.
SetEnabled ==
    \E i \in DOMAIN sites :
        /\ lock = 0
        /\ sites' = [sites EXCEPT ![i].enabled = ~@]
        /\ UNCHANGED <<nextId, checks, lock, pc, locals, tx, batches, gate, norm>>

\* Faulty variant of DeleteStmts: the DELETE FROM checks left out.
DeleteStmtsSiteOnly(id) == <<DeleteSiteStmt(id)>>

DeleteStmts(id) == <<DeleteChecksStmt(id), DeleteSiteStmt(id)>>

\* render_dashboard lines 358-365: the Delete button; one transaction, whose
\* write lock keeps every other writer out until its commit.
DeleteSite ==
    \E i \in DOMAIN sites :
        /\ lock = 0
        /\ sites' = ApplyAll(Db, DeleteStmts(i)).sites
        /\ checks' = ApplyAll(Db, DeleteStmts(i)).checks
        /\ UNCHANGED <<nextId, lock, pc, locals, tx, batches, gate, norm>>

\* ------------------------------------------------------------ process death
\* The server process dies and is started again: every script run is gone, an
\* open transaction is rolled back, the committed tables remain.
Crash ==
    /\ \E p \in Sessions : pc[p] # "idle"
    /\ pc' = [p \in Sessions |-> "idle"]
    /\ secrets' = [p \in Sessions |-> Unread]
    /\ snap' = [p \in Sessions |-> <<>>]
    /\ idx' = [p \in Sessions |-> 1]
    /\ cur' = [p \in Sessions |-> NoCur]
    /\ tx' = [p \in Sessions |-> <<>>]
    /\ results' = [p \in Sessions |-> <<>>]
    /\ notif' = [p \in Sessions |-> <<>>]
    /\ appended' = [p \in Sessions |-> <<>>]
    /\ lock' = 0
    /\ UNCHANGED <<store, batches, gate, norm>>

\* ------------------------------------------------------------ specifications
Steps(p) ==
    \/ FetchOk(p)
    \/ FetchFail(p)
    \/ ExecUpdate(p)
    \/ ExecInsert(p)
    \/ RecordFailure(p)
    \/ Commit(p)
    \/ NotifyChanged(p)
    \/ SkipNotify(p)
    \/ Finish(p)

Dashboard == AddSite \/ SetEnabled \/ DeleteSite

\* Any number of script runs at once.
Next == (\E p \in Sessions : StartBatch(p) \/ Steps(p)) \/ Dashboard \/ Crash

Spec == Init /\ [][Next]_vars

\* One run_all_checks at a time; the dashboard still interleaves with it.
StartAlone(p) == (\A q \in Sessions : pc[q] = "idle") /\ StartBatch(p)

NextSeq == (\E p \in Sessions : StartAlone(p) \/ Steps(p)) \/ Dashboard \/ Crash

SpecSeq == Init /\ [][NextSeq]_vars

\* The server starts on a monitor.db left by an earlier run (init_db creates
\* the tables only if they are missing): two sites were added, with the form
\* texts "a" and " ", and neither has been checked.
InitStored ==
    /\ Idle
    /\ sites = <<[url |-> <<"a">>, last_hash |-> None, enabled |-> TRUE],
                 [url |-> <<>>, last_hash |-> None, enabled |-> TRUE]>>
    /\ nextId = 3
    /\ checks = <<>>
    /\ request = NoRequest
    /\ page = "none"
    /\ doc = <<>>
    /\ canon = None

\* The server process stays up, and every script thread that can take a step
\* takes one in the end: requests.get returns or raises within timeout=25,
\* requests.post within timeout=15, and a transaction that holds the write
\* lock runs to its commit without waiting for anything.
NextLive == (\E p \in Sessions : StartBatch(p) \/ Steps(p)) \/ DeleteSite

SpecLive == InitStored /\ [][NextLive]_vars /\ \A p \in Sessions : WF_vars(Steps(p))

\* One change of one page.  The site was checked once when its page was
\* OldPage, so that hash is stored with the one row of that check; since then
\* the page is ServedPage, and stays so.
OldPage == <<>>
ServedPage == <<"x">>

InitRace ==
    /\ Idle
    /\ sites = <<[url |-> <<"a">>,
                  last_hash |-> Some(compute_hash(normalize_html(OldPage))),
                  enabled |-> TRUE]>>
    /\ nextId = 2
    /\ checks = <<[site_id |-> 1, changed |-> FALSE, error |-> None]>>
    /\ request = NoRequest
    /\ page = "none"
    /\ doc = <<>>
    /\ canon = None

\* check_site lines 139-150: the fetch succeeds with the page now served.
FetchServed(p) ==
    /\ pc[p] = "fetch"
    /\ cur' = [cur EXCEPT ![p] = OnFetched(snap[p][idx[p]], ServedPage)]
    /\ pc' = [pc EXCEPT ![p] = "update"]
    /\ UNCHANGED <<secrets, store, lock, snap, idx, tx, results, notif, appended,
                   batches, gate, norm>>

\* Up to MaxBatches run_all_checks invocations, at once or one after another.
NextRace ==
    \E p \in Sessions :
        \/ StartBatch(p)
        \/ FetchServed(p)
        \/ FetchFail(p)
        \/ ExecUpdate(p)
        \/ ExecInsert(p)
        \/ RecordFailure(p)
        \/ Commit(p)
        \/ NotifyChanged(p)
        \/ SkipNotify(p)
        \/ Finish(p)

SpecRace == InitRace /\ [][NextRace]_vars

\* A request arrives at a fresh server: main() is about to route it.
InitGate ==
    /\ Idle
    /\ EmptyDb
    /\ request \in Requests
    /\ page = "none"
    /\ doc = <<>>
    /\ canon = None

\* main, lines 408-416: the cron page for a cron request, else the dashboard.
main ==
    /\ page = "none"
    /\ page' = IF is_cron_request(request) THEN "cron" ELSE "dashboard"
    /\ UNCHANGED <<store, lock, pc, tx, locals, batches, request, norm>>

SpecGate == InitGate /\ [][main]_vars

\* normalize_html on its own: some markup is about to be normalized.
InitNorm ==
    /\ Idle
    /\ EmptyDb
    /\ request = NoRequest
    /\ page = "none"
    /\ doc \in Docs
    /\ canon = None

\* normalize_html(doc) is called and returns.
Normalize ==
    /\ canon = None
    /\ canon' = Some(normalize_html(doc))
    /\ UNCHANGED <<store, lock, pc, tx, locals, batches, gate, doc>>

\* The text returned is handed to normalize_html again.
Renormalize ==
    /\ canon # None
    /\ doc' = canon[1]
    /\ canon' = None
    /\ UNCHANGED <<store, lock, pc, tx, locals, batches, gate>>

NextNorm == Normalize \/ Renormalize

SpecNorm == InitNorm /\ [][NextNorm]_vars

\* ------------------------------------------------------------ steps, as seen from outside
\* Session p's check_site commits (line 162 or 178) in this step.
Commits(p) == pc[p] = "commit" /\ pc'[p] = "notify"
\* Session p's check_site call in progress is on the success path.
Succeeded(p) == cur[p].new_hash # None
\* Session p leaves lines 196-203 for the site it just checked.
Reports(p) == pc[p] = "notify" /\ pc'[p] \in {"fetch", "done"}
\* The number of send_telegram_message calls of a batch for site id.
RECURSIVE CallsFor(_, _)
CallsFor(ns, id) ==
    IF ns = <<>> THEN 0
    ELSE (IF Head(ns).site_id = id THEN 1 ELSE 0) + CallsFor(Tail(ns), id)

InFlight == {"update", "insert", "record_failure", "commit", "notify"}

\* ------------------------------------------------------------ C1
C1_AtCommit ==
    \A p \in Sessions :
        (/\ Commits(p)
         /\ Succeeded(p)
         /\ cur[p].site_id \in DOMAIN sites
         /\ sites[cur[p].site_id].last_hash # None)
        => LET id == cur[p].site_id
               H1 == sites[id].last_hash
               H2 == cur[p].new_hash
           IN  /\ cur[p].changed = (H2 # H1)
               /\ checks' = Append(checks, [site_id |-> id, changed |-> (H2 # H1),
                                            error |-> None])
               /\ sites' = [sites EXCEPT ![id].last_hash = H2]

C1_AtReport ==
    \A p \in Sessions :
        Reports(p) =>
            /\ results'[p] = Append(results[p],
                    [site_id |-> cur[p].site_id, url |-> cur[p].url,
                     changed |-> cur[p].changed, error |-> cur[p].error])
            /\ CallsFor(notif'[p], cur[p].site_id)
                 = CallsFor(notif[p], cur[p].site_id) + (IF cur[p].changed THEN 1 ELSE 0)

C1_AtDone ==
    \A p \in Sessions :
        pc[p] = "done" =>
            \A i \in DOMAIN results[p] :
                CallsFor(notif[p], results[p][i].site_id)
                    = (IF results[p][i].changed THEN 1 ELSE 0)

\* C1 (change detection): when a successful check of a site whose stored
\* last_hash is H1 commits with new hash H2, the row it appends has
\* changed = (H2 # H1) and no error, the stored last_hash becomes H2 (so it
\* stays H1 when H2 = H1), and on leaving the loop body the notifier has been
\* called once more for that site if changed and not at all otherwise; a
\* finished batch holds one call for each changed site and none for the rest.
C1_ChangeDetection == [][C1_AtCommit /\ C1_AtReport]_vars /\ []C1_AtDone

\* A finished batch that found a site changed, recorded it and notified once.
C1_Witness ==
    \E p \in Sessions :
        /\ pc[p] = "done"
        /\ \E i \in DOMAIN results[p] :
            /\ results[p][i].changed
            /\ CallsFor(notif[p], results[p][i].site_id) = 1
            /\ checks # <<>>
            /\ checks[Len(checks)] = [site_id |-> results[p][i].site_id,
                                      changed |-> TRUE, error |-> None]

\* ------------------------------------------------------------ C2
C2_AtCommit ==
    \A p \in Sessions :
        (/\ Commits(p)
         /\ Succeeded(p)
         /\ cur[p].site_id \in DOMAIN sites
         /\ sites[cur[p].site_id].last_hash = None)
        => LET id == cur[p].site_id
           IN  /\ ~cur[p].changed
               /\ checks' = Append(checks, [site_id |-> id, changed |-> FALSE,
                                            error |-> None])
               /\ sites' = [sites EXCEPT ![id].last_hash = cur[p].new_hash]
               /\ sites'[id].last_hash # None

C2_AtReport ==
    \A p \in Sessions :
        (Reports(p) /\ ~cur[p].changed) =>
            /\ notif'[p] = notif[p]
            /\ ~results'[p][Len(results'[p])].changed

\* C2 (baseline rule): when a successful check of a site whose stored
\* last_hash is NULL commits, whatever page was fetched, the row it appends has
\* changed = FALSE and no error, the stored last_hash becomes the new hash,
\* and the loop body is left without a notifier call.
C2_Baseline == [][C2_AtCommit /\ C2_AtReport]_vars

\* The first check of a site has been committed: its hash is stored, its one
\* row says unchanged, and the batch is through without a notifier call.
C2_Witness ==
    \E p \in Sessions, id \in DOMAIN sites :
        /\ pc[p] = "done"
        /\ sites[id].last_hash # None
        /\ checks = <<[site_id |-> id, changed |-> FALSE, error |-> None]>>
        /\ notif[p] = <<>>
        /\ Len(results[p]) = 1

\* ------------------------------------------------------------ C3
C3_AtCommit ==
    \A p \in Sessions :
        (Commits(p) /\ ~Succeeded(p)) =>
            /\ cur[p].error # None
            /\ checks' = Append(checks, [site_id |-> cur[p].site_id,
                                         changed |-> FALSE, error |-> cur[p].error])
            /\ sites' = sites

C3_AtFetch ==
    \A p \in Sessions :
        (pc[p] = "fetch" /\ pc'[p] = "record_failure") =>
            /\ \E e \in ErrorTexts : cur'[p].error = Some(e)
            /\ cur'[p].site_id = snap[p][idx[p]].id
            /\ UNCHANGED <<sites, checks>>

C3_AtRecord ==
    \A p \in Sessions :
        (pc[p] = "record_failure" /\ pc'[p] = "commit") =>
            /\ Len(tx'[p]) = 1
            /\ UNCHANGED <<sites, checks>>

C3_AtReport ==
    \A p \in Sessions :
        (Reports(p) /\ ~Succeeded(p)) =>
            LET r == results'[p][Len(results'[p])]
            IN  /\ ~r.changed
                /\ r.error = cur[p].error
                /\ r.site_id = cur[p].site_id
                /\ UNCHANGED <<sites, checks>>

\* C3 (failed check): a check whose fetch failed executes exactly one
\* statement, and its commit appends exactly one row for the site, with
\* changed = FALSE and the failure text as error, and leaves table sites as it
\* was; the result handed to the caller has changed = FALSE and that error.
C3_FailedCheck == [][C3_AtFetch /\ C3_AtRecord /\ C3_AtCommit /\ C3_AtReport]_vars

\* A failed check has been recorded for a site that had a hash, which it kept.
C3_Witness ==
    \E p \in Sessions, id \in DOMAIN sites :
        /\ pc[p] = "notify"
        /\ ~Succeeded(p)
        /\ cur[p].site_id = id
        /\ sites[id].last_hash # None
        /\ checks[Len(checks)] = [site_id |-> id, changed |-> FALSE,
                                  error |-> cur[p].error]

\* ------------------------------------------------------------ C4
C4_AtStart ==
    \A p \in Sessions :
        (pc[p] = "idle" /\ pc'[p] # "idle") =>
            /\ \A i \in DOMAIN sites :
                Cardinality({k \in DOMAIN snap'[p] : snap'[p][k].id = i})
                    = (IF sites[i].enabled THEN 1 ELSE 0)
            /\ \A k \in DOMAIN snap'[p] : snap'[p][k].id \in DOMAIN sites
            /\ results'[p] = <<>>

C4_Traversal ==
    \A p \in Sessions :
        /\ pc[p] # "aborted"
        /\ pc[p] \in InFlight \cup {"fetch"} =>
              idx[p] \in DOMAIN snap[p] /\ Len(results[p]) = idx[p] - 1
        /\ pc[p] = "done" => Len(results[p]) = Len(snap[p])
        /\ \A k \in DOMAIN results[p] :
              /\ k \in DOMAIN snap[p]
              /\ results[p][k].site_id = snap[p][k].id

C4_OwnOutcome ==
    \A p \in Sessions :
        pc[p] \in InFlight =>
            LET row == snap[p][idx[p]]
            IN  /\ cur[p].site_id = row.id
                /\ Succeeded(p) =>
                      /\ cur[p].error = None
                      /\ cur[p].changed =
                            (row.last_hash # None /\ cur[p].new_hash # row.last_hash)
                /\ ~Succeeded(p) => ~cur[p].changed /\ cur[p].error # None

C4_AtReport ==
    \A p \in Sessions :
        Reports(p) =>
            LET r == results'[p][Len(results'[p])]
            IN  /\ Len(results'[p]) = Len(results[p]) + 1
                /\ r.changed = cur[p].changed
                /\ r.error = cur[p].error

\* C4 (batch traversal and fault isolation): a batch's snapshot holds exactly
\* the sites enabled when it was read, each once; the batch never ends early;
\* its results follow the snapshot row by row, one per row when it is done,
\* whichever checks failed; and the outcome of a check that succeeded is
\* decided by its own snapshot row and its own page alone.
C4_BatchTraversal ==
    [][C4_AtStart /\ C4_AtReport]_vars /\ [](C4_Traversal /\ C4_OwnOutcome)

\* A batch over two sites is done: the first check failed, the second did not.
C4_Witness ==
    \E p \in Sessions :
        /\ pc[p] = "done"
        /\ Len(results[p]) = 2
        /\ results[p][1].error # None
        /\ results[p][2].error = None
        /\ results[p][1].site_id # results[p][2].site_id

\* ------------------------------------------------------------ C5
C5_NoChangedError ==
    \A k \in DOMAIN checks : ~(checks[k].changed /\ checks[k].error # None)

C5_AtCommit ==
    \A p \in Sessions :
        Commits(p) =>
            /\ Len(checks') = Len(checks) + 1
            /\ (checks'[Len(checks')].error # None) <=> ~Succeeded(p)

\* C5: no row of checks has changed = TRUE together with a non-NULL error; and
\* the row a check commits has a non-NULL error exactly when the check failed.
C5_ErrorExclusive == []C5_NoChangedError /\ [][C5_AtCommit]_vars

\* The table holds a row of a failed check and a row of a detected change.
C5_Witness ==
    /\ \E k \in DOMAIN checks : checks[k].error # None
    /\ \E k \in DOMAIN checks : checks[k].changed

\* ------------------------------------------------------------ C6
C6_HashOnlyWithRow ==
    \A id \in DOMAIN sites \cap DOMAIN sites' :
        sites'[id].last_hash # sites[id].last_hash =>
            \E p \in Sessions :
                /\ Commits(p)
                /\ Succeeded(p)
                /\ cur[p].site_id = id
                /\ sites'[id].last_hash = cur[p].new_hash
                /\ checks' = Append(checks, RowOf(p))

C6_RowOnlyWithHash ==
    \A p \in Sessions :
        (Commits(p) /\ Succeeded(p) /\ cur[p].site_id \in DOMAIN sites) =>
            /\ sites'[cur[p].site_id].last_hash = cur[p].new_hash
            /\ checks' = Append(checks, RowOf(p))

C6_NothingBeforeCommit ==
    \A p \in Sessions :
        (pc[p] \in {"update", "insert", "commit"} /\ pc'[p] # pc[p] /\ ~Commits(p)) =>
            UNCHANGED <<sites, checks>>

\* C6 (atomic success update): the committed tables change for a successful
\* check in one step only, its commit, which stores the new hash and appends
\* the row together; a stored hash never changes without that row being
\* appended in the same step; and a check that stops between its two writes,
\* or before its commit, leaves the committed tables as they were.
C6_AtomicUpdate ==
    [][C6_HashOnlyWithRow /\ C6_RowOnlyWithHash /\ C6_NothingBeforeCommit]_vars

\* A successful check stands between its two writes: the UPDATE is executed,
\* the INSERT is not, and the committed table still has the old hash.
C6_Witness ==
    \E p \in Sessions :
        /\ pc[p] = "insert"
        /\ Len(tx[p]) = 1
        /\ cur[p].site_id \in DOMAIN sites
        /\ sites[cur[p].site_id].last_hash # cur[p].new_hash

\* ------------------------------------------------------------ C7
C7_AtCommit ==
    \A p \in Sessions :
        (Commits(p) /\ Succeeded(p) /\ cur[p].site_id \in DOMAIN sites) =>
            LET prior == sites[cur[p].site_id].last_hash
            IN  checks'[Len(checks')].changed
                    <=> (prior # None /\ cur[p].new_hash # prior)

\* C7: the row a successful check commits for a stored site has changed = TRUE
\* if and only if the hash stored for the site just before the commit is
\* present and differs from the hash the check computed.  Holds under SpecSeq;
\* under Spec two overlapping batches refute it, because check_site compares
\* with the last_hash its batch read at line 189, not with the stored one.
C7_ChangedIffDiffers == [][C7_AtCommit]_vars

\* ------------------------------------------------------------ C8
C8_NeverRaises ==
    \A p \in Sessions :
        /\ pc[p] # "aborted"
        /\ \A k \in DOMAIN notif[p] :
              /\ notif[p][k].outcome \in {"skipped", "delivered", "logged"}
              /\ notif[p][k].outcome = "skipped"
                    <=> (secrets[p].token = "" \/ secrets[p].chat = "")
        /\ pc[p] = "done" => Len(results[p]) = Len(snap[p])

C8_AtNotify ==
    \A p \in Sessions :
        (pc[p] = "notify" /\ cur[p].changed /\ pc'[p] # pc[p] /\ pc'[p] # "idle") =>
            /\ UNCHANGED <<sites, checks>>
            /\ Len(notif'[p]) = Len(notif[p]) + 1
            /\ results'[p] = Append(results[p],
                    [site_id |-> cur[p].site_id, url |-> cur[p].url,
                     changed |-> TRUE, error |-> None])
            /\ pc'[p] = (IF idx[p] < Len(snap[p]) THEN "fetch" ELSE "done")

\* C8 (notifier isolation): no batch is ended by the notifier; a notifier call
\* delivers, or logs a failed post, or, exactly when the token or the chat id
\* is empty, does nothing; whatever the call did, the tables are as the check
\* left them, the result says changed, and the loop goes on to the next site.
C8_NotifierIsolation == []C8_NeverRaises /\ [][C8_AtNotify]_vars

\* A batch over two sites is done although the post for its first site failed.
C8_Witness ==
    \E p \in Sessions :
        /\ pc[p] = "done"
        /\ Len(results[p]) = 2
        /\ notif[p] # <<>>
        /\ notif[p][1].outcome = "logged"
        /\ notif[p][1].site_id = results[p][1].site_id
        /\ results[p][1].changed

\* ------------------------------------------------------------ C9
C9_AtDelete ==
    \A id \in DOMAIN sites \ DOMAIN sites' :
        /\ DOMAIN sites' = DOMAIN sites \ {id}
        /\ \A i \in DOMAIN sites' : sites'[i] = sites[i]
        /\ \A k \in DOMAIN checks' : checks'[k].site_id # id
        /\ LastError(checks', id) = None

\* C9 (cascade delete): the step that removes a site from table sites removes
\* that site only and leaves no row of it in table checks, so that right after
\* it the history of that id is empty and get_last_error_for_site finds nothing.
C9_CascadeDelete == [][C9_AtDelete]_vars

\* A batch has reported a check of a site (so its row was committed), the site
\* has been deleted since, and no row of it is left.
C9_Witness ==
    \E p \in Sessions :
        /\ pc[p] = "done"
        /\ results[p] # <<>>
        /\ results[p][1].site_id \notin DOMAIN sites
        /\ \A k \in DOMAIN checks : checks[k].site_id # results[p][1].site_id

\* ------------------------------------------------------------ C10
C10_UniqueUrl ==
    \A i, j \in DOMAIN sites : sites[i].url = sites[j].url => i = j

C10_Rejects ==
    \A url \in UrlInputs \ {<<>>} :
        (\E i \in DOMAIN sites : sites[i].url = Strip(url)) =>
            SubmitAddForm(sites, nextId, url)
                = [msg |-> "This URL is already being monitored.",
                   sites |-> sites, nextId |-> nextId]

\* C10 (duplicate rejection): no two sites share a url; and in every state,
\* submitting the form with a text whose stripped value is the url of a stored
\* site, enabled or not, shows the duplicate message and changes nothing.
C10_DuplicateRejection == C10_UniqueUrl /\ C10_Rejects

\* A disabled site is stored, there is room for another, and the form text
\* names its url.
C10_Witness ==
    \E i \in DOMAIN sites, url \in UrlInputs \ {<<>>} :
        /\ ~sites[i].enabled
        /\ nextId <= MaxSites
        /\ Strip(url) = sites[i].url
        /\ SubmitAddForm(sites, nextId, url).sites = sites

\* ------------------------------------------------------------ C11
\* The request carries the value v for the parameter par.
Carries(par, v) ==
    \/ par.type = "str" /\ par.value = <<v>>
    \/ par.type = "list" /\ \E i \in DOMAIN par.value : par.value[i] = v

\* The spellings of a set trigger flag.
Truthy == {"1", "true", "True"}
FlagSet(r) == \E v \in Truthy : Carries(r.cron, v)

C11_Iff ==
    page = "cron" <=>
        FlagSet(request) /\ (request.CRON_KEY = "" \/ Carries(request.key, request.CRON_KEY))

C11_Cases ==
    /\ (request.CRON_KEY # "" /\ ~Carries(request.key, request.CRON_KEY))
          => page = "dashboard"
    /\ (request.CRON_KEY = "" /\ FlagSet(request)) => page = "cron"
    /\ ~FlagSet(request) => page = "dashboard"

\* C11 (trigger gating): once main has routed a request, it was answered with
\* the cron page if and only if it carries a set trigger flag and either
\* CRON_KEY is empty or the request carries CRON_KEY itself as a key; with a
\* non-empty CRON_KEY a wrong or missing key gets the dashboard, with an empty
\* CRON_KEY every flagged request gets the cron page, and an unflagged request
\* always gets the dashboard.
C11_TriggerGating == page # "none" => (C11_Iff /\ C11_Cases)

\* A flagged request with a wrong key was answered with the dashboard.
C11_Witness ==
    /\ page = "dashboard"
    /\ request.CRON_KEY = "s"
    /\ FlagSet(request)
    /\ request.key = StrParam("t")

\* ------------------------------------------------------------ C12
\* The sites stored before and after the step.
Kept == DOMAIN sites \cap DOMAIN sites'

C12_HashOnlyByOwnSuccess ==
    \A id \in Kept :
        sites'[id].last_hash # sites[id].last_hash =>
            \E p \in Sessions :
                Commits(p) /\ Succeeded(p) /\ cur[p].site_id = id

C12_OtherStepsKeepHash ==
    \* adding a site
    /\ nextId' # nextId => \A id \in DOMAIN sites : sites'[id] = sites[id]
    \* toggling enabled on any site
    /\ (\E id \in Kept : sites'[id].enabled # sites[id].enabled) =>
          \A id \in Kept : sites'[id].last_hash = sites[id].last_hash
    \* a failed check
    /\ \A p \in Sessions : (Commits(p) /\ ~Succeeded(p)) => sites' = sites
    \* a check of a different site
    /\ \A p \in Sessions :
          Commits(p) => \A id \in Kept \ {cur[p].site_id} : sites'[id] = sites[id]
    \* deleting a different site
    /\ DOMAIN sites' # DOMAIN sites => \A id \in Kept : sites'[id] = sites[id]

C12_EnabledOnlyByToggle ==
    /\ \A id \in Kept :
          sites'[id].enabled # sites[id].enabled =>
              /\ sites' = [sites EXCEPT ![id].enabled = ~@]
              /\ UNCHANGED <<nextId, checks, pc, tx, cur, results, notif>>
    /\ (\E p \in Sessions : pc'[p] # pc[p]) =>
          \A id \in Kept : sites'[id].enabled = sites[id].enabled

\* C12 (frame of last_hash and enabled): a step changes the stored last_hash
\* of a site only if it is the commit of a successful check of that site;
\* adding a site, a toggle, the commit of a failed check, the commit of a
\* check of another site and the deletion of another site leave it as it
\* was; and enabled changes only in a step that flips that one flag and
\* nothing else, never in a step of a check.
C12_Frame ==
    [][C12_HashOnlyByOwnSuccess /\ C12_OtherStepsKeepHash /\ C12_EnabledOnlyByToggle]_vars

\* Site a has a stored hash and was disabled after its check; a check of
\* site b has just committed another hash, and a still has its own.
C12_Witness ==
    \E p \in Sessions, a, b \in DOMAIN sites :
        /\ a # b
        /\ sites[a].last_hash # None
        /\ ~sites[a].enabled
        /\ pc[p] = "notify"
        /\ Succeeded(p)
        /\ cur[p].site_id = b
        /\ sites[b].last_hash = cur[p].new_hash
        /\ sites[a].last_hash # sites[b].last_hash

\* ------------------------------------------------------------ C13
C13_AppendOrCascade ==
    \/ checks' = checks
    \/ \E p \in Sessions :
          /\ Commits(p)
          /\ Len(checks') = Len(checks) + 1
          /\ SubSeq(checks', 1, Len(checks)) = checks
          /\ checks'[Len(checks')].site_id = snap[p][idx[p]].id
    \/ \E id \in DOMAIN sites \ DOMAIN sites' :
          checks' = SelectSeq(checks, LAMBDA r : r.site_id # id)

C13_AtCommit ==
    \A p \in Sessions :
        Commits(p) =>
            /\ Len(checks') = Len(checks) + 1
            /\ appended'[p] = Append(appended[p], checks'[Len(checks')])
            /\ checks'[Len(checks')].site_id = snap[p][idx[p]].id
            /\ (checks'[Len(checks')].error = None) <=> Succeeded(p)

\* One row per attempt: a batch has committed one row for every snapshot row
\* it is through with, and none for the others.
C13_OnePerAttempt ==
    \A p \in Sessions :
        /\ pc[p] \in {"fetch", "update", "insert", "record_failure", "commit"}
              => Len(appended[p]) = idx[p] - 1
        /\ pc[p] = "notify" => Len(appended[p]) = idx[p]
        /\ pc[p] = "done" => Len(appended[p]) = Len(snap[p])
        /\ \A k \in DOMAIN appended[p] :
              k \in DOMAIN snap[p] /\ appended[p][k].site_id = snap[p][k].id

\* C13 (history append-only and complete): every step leaves table checks as
\* it was, or is the commit of a check and appends one row of the checked
\* site after the rows there were, or deletes a site and removes exactly the
\* rows of that site; every check_site call that returns, on the success and
\* on the failure path, has committed exactly one row for its site.
C13_AppendOnly == [][C13_AppendOrCascade /\ C13_AtCommit]_vars /\ []C13_OnePerAttempt

\* A batch over two sites is done, the first check failed; its two rows stand
\* after the row of an earlier batch.
C13_Witness ==
    \E p \in Sessions :
        /\ pc[p] = "done"
        /\ Len(appended[p]) = 2
        /\ appended[p][1].error # None
        /\ Len(checks) = 3
        /\ checks[2] = appended[p][1]
        /\ checks[3] = appended[p][2]

\* ------------------------------------------------------------ C14
C14_ChangedCount ==
    \A p \in Sessions :
        pc[p] = "done" =>
            render_cron_page(results[p]).Changed
                = Cardinality({k \in DOMAIN appended[p] : appended[p][k].changed})

C14_ErrorCount ==
    \A p \in Sessions :
        pc[p] = "done" =>
            render_cron_page(results[p]).Errors
                = Cardinality({k \in DOMAIN appended[p] : appended[p][k].error # None})

\* C14 (batch summary): when run_all_checks has returned, the summary computed
\* from its results has Changed equal to the number of rows this batch
\* committed with changed = TRUE, and Errors equal to the number of rows it
\* committed with a non-NULL error, whatever the failure texts were.
C14_BatchSummary == C14_ChangedCount /\ C14_ErrorCount

\* ------------------------------------------------------------ C15
\* The string d with the token tok put in after its first i tokens.
InsertAt(d, i, tok) == SubSeq(d, 1, i) \o <<tok>> \o SubSeq(d, i + 1, Len(d))

\* Normalizing a returned text gives that text.
C15_Idempotent == canon # None => normalize_html(canon[1]) = canon[1]

\* The text returned for doc is also the text of doc with a white-space run
\* made longer.
C15_WhitespaceRuns ==
    canon # None =>
        \A i \in DOMAIN doc :
            doc[i] = " " => normalize_html(InsertAt(doc, i, " ")) = canon[1]

\* The text returned for doc is also the text of doc with a tag, which carries
\* no text of its own, put in anywhere.
C15_EmptyMarkup ==
    canon # None =>
        \A i \in 0..Len(doc) : normalize_html(InsertAt(doc, i, "<t>")) = canon[1]

\* C15 (idempotent normalization): a text returned by normalize_html is
\* returned unchanged when normalized again; and a document normalizes to the
\* same text as the document with one of its white-space runs made longer or
\* with a tag put in anywhere.
C15_Normalization == C15_Idempotent /\ C15_WhitespaceRuns /\ C15_EmptyMarkup

\* ------------------------------------------------------------ C16
\* C16 (referential integrity): in every state, every row of table checks has
\* the id of a site that is in table sites, also while a batch that read a
\* site is in flight and the site is deleted from the dashboard.
C16_ReferentialIntegrity ==
    \A k \in DOMAIN checks : checks[k].site_id \in DOMAIN sites

\* ------------------------------------------------------------ C17
C17_Terminates == \A p \in Sessions : (pc[p] # "idle") ~> (pc[p] = "done")

C17_AllRecorded ==
    \A p \in Sessions :
        pc[p] = "done" =>
            /\ Len(appended[p]) = Len(snap[p])
            /\ \A k \in DOMAIN snap[p] : appended[p][k].site_id = snap[p][k].id

\* C17 (batch termination): with every fetch and every post returning or
\* failing in bounded time, a run_all_checks invocation that has started
\* reaches its return statement, and when it does it has committed one row for
\* every site of the snapshot it read, in the snapshot's order.
C17_Termination == C17_Terminates /\ []C17_AllRecorded

\* A batch over two sites has returned: the first fetch failed, the second
\* site had changed and the notifier was called.
C17_Witness ==
    \E p \in Sessions :
        /\ pc[p] = "done"
        /\ Len(snap[p]) = 2
        /\ Len(appended[p]) = 2
        /\ appended[p][1].error # None
        /\ appended[p][2].changed
        /\ Len(notif[p]) = 1

\* ------------------------------------------------------------ C18
\* Session p calls send_telegram_message in this step.
Calls(p) == notif'[p] # notif[p] /\ pc'[p] # "idle"

C18_AtCall ==
    \A p \in Sessions :
        Calls(p) =>
            LET id == snap[p][idx[p]].id
            IN  /\ notif'[p] = Append(notif[p], notif'[p][Len(notif'[p])])
                /\ notif'[p][Len(notif'[p])].site_id = id
                \* the transaction of this site's check is committed
                /\ tx[p] = <<>>
                /\ lock # p
                /\ Len(appended[p]) = idx[p]
                /\ appended[p][idx[p]] = [site_id |-> id, changed |-> TRUE,
                                           error |-> None]
                /\ UNCHANGED <<sites, checks>>

\* The commit that precedes the call stores the new hash with the row, and
\* no call is made in the steps of check_site.
C18_AtCommit ==
    \A p \in Sessions :
        /\ (pc[p] \in {"fetch", "update", "insert", "record_failure", "commit"}
              /\ pc'[p] # "idle") => notif'[p] = notif[p]
        /\ (Commits(p) /\ cur[p].changed /\ cur[p].site_id \in DOMAIN sites) =>
              /\ sites'[cur[p].site_id].last_hash = cur[p].new_hash
              /\ checks'[Len(checks')] = [site_id |-> cur[p].site_id,
                                           changed |-> TRUE, error |-> None]

\* No call for a site whose row of this batch says unchanged or failed.
C18_OnlyChanged ==
    \A p \in Sessions :
        /\ \A k \in DOMAIN appended[p] :
              (~appended[p][k].changed \/ appended[p][k].error # None)
                  => CallsFor(notif[p], appended[p][k].site_id) = 0
        /\ \A n \in DOMAIN notif[p] :
              \E k \in DOMAIN appended[p] :
                  /\ appended[p][k].site_id = notif[p][n].site_id
                  /\ appended[p][k].changed

\* C18 (notify after commit): a batch calls the notifier for a site only in a
\* step taken after the transaction of that site's check has committed, the
\* row it committed for that site in this batch having changed = TRUE and no
\* error, and that commit having stored the new hash with the row; the call
\* writes nothing to the tables; and the batch makes no call for a site whose
\* row of this batch has changed = FALSE or an error.
C18_NotifyAfterCommit == [][C18_AtCall /\ C18_AtCommit]_vars /\ []C18_OnlyChanged

\* The notifier has been called for a site whose changed row is the last of
\* table checks and whose new hash is stored.
C18_Witness ==
    \E p \in Sessions :
        /\ Len(notif[p]) = 1
        /\ Len(appended[p]) = 1
        /\ appended[p][1].changed
        /\ notif[p][1].site_id = appended[p][1].site_id
        /\ notif[p][1].outcome = "delivered"
        /\ checks # <<>>
        /\ checks[Len(checks)] = appended[p][1]
        /\ appended[p][1].site_id \in DOMAIN sites
        /\ sites[appended[p][1].site_id].last_hash # snap[p][1].last_hash

\* ------------------------------------------------------------ C19
\* The rows of table checks that say site id changed.
ChangedRows(id) == {k \in DOMAIN checks : checks[k].site_id = id /\ checks[k].changed}

C19_OneRow == \A id \in DOMAIN sites : Cardinality(ChangedRows(id)) <= 1

C19_OneCall ==
    \A id \in DOMAIN sites :
        /\ \A p \in Sessions : CallsFor(notif[p], id) <= 1
        /\ \A p, q \in Sessions :
              (CallsFor(notif[p], id) = 1 /\ CallsFor(notif[q], id) = 1) => p = q

\* C19 (no duplicate alert): the page of a site whose stored hash is H1 has
\* changed once, to a page of hash H2; however the run_all_checks invocations
\* interleave, table checks holds at most one row with changed = TRUE for the
\* site, and the invocations in progress have called the notifier for it at
\* most once between them.
C19_NoDuplicateAlert == C19_OneRow /\ C19_OneCall

====
